---- MODULE Spec2Model ----
(***************************************************************************)
(* Model of the incident-detection Lambda: handler.py (lambda_handler,     *)
(* parse_event, send_notifications), claude_agent.py (ClaudeIncidentAgent) *)
(* and slack_notifier.py (SlackNotifier).                                  *)
(*                                                                         *)
(* Representation of Python values                                        *)
(*   A JSON value is a pair <<tag, payload>>:                              *)
(*     <<"str", s>>    a Python str, s a TLA+ string                       *)
(*     <<"text", t>>   a Python str whose characters matter (it is         *)
(*                     searched, sliced or parsed); t is a sequence of     *)
(*                     tokens, see the section on text                     *)
(*     <<"id", d>>     the str built by _generate_incident_id from d       *)
(*     <<"num", n>>    an int                                              *)
(*     <<"null", 0>>   None                                                *)
(*     <<"list", q>>   a list, q a sequence of JSON values                 *)
(*     <<"obj", d>>    a dict, d a function from key strings to JSON values*)
(*   A Python dict held in a local variable is the function d itself.      *)
(*   A call that may raise returns [exc, msg, val]: exc = "" and val the   *)
(*   returned value, or exc the exception class and msg its str().         *)
(***************************************************************************)
EXTENDS Integers, Sequences, FiniteSets, TLC

\* ------------------------------------------------------------------ bounds
\* datetime.utcnow() returns one of the instants 0..MaxClock
MaxClock == 2
\* deliveries of the same inbound event that are followed (SpecReplay)
MaxRuns == 2

\* -------------------------------------------------------------- JSON values
JStr(s) == <<"str", s>>
JText(t) == <<"text", t>>
JNum(n) == <<"num", n>>
JNull == <<"null", 0>>
JList(q) == <<"list", q>>
JObj(d) == <<"obj", d>>

EmptyDict == [k \in {} |-> JNull]

IsStr(v) == v[1] \in {"str", "text", "id"}
IsDict(v) == v[1] = "obj"
\* the name Python prints for the class of a value
TypeName(v) ==
  CASE v[1] \in {"str", "text", "id"} -> "str"
    [] v[1] = "num" -> "int"
    [] v[1] = "null" -> "NoneType"
    [] v[1] = "list" -> "list"
    [] OTHER -> "dict"

\* key in d
HasKey(d, k) == k \in DOMAIN d
\* d.get(k, default)
Get(d, k, default) == IF k \in DOMAIN d THEN d[k] ELSE default

Ok(v) == [exc |-> "", msg |-> "", val |-> v]
Raise(e, m) == [exc |-> e, msg |-> m, val |-> EmptyDict]
\* an exception raised after the calls recorded in done were made
RaiseAfter(e, m, done) == [exc |-> e, msg |-> m, val |-> done]
NoGet(v) == Raise("AttributeError", "'" \o TypeName(v) \o "' object has no attribute 'get'")

\* -------------------------------------------------------------------- text
\* A text is a sequence of tokens.  <<"lit", s>> is the characters s;
\* <<"members", d>> is the characters of the JSON object d up to, and
\* without, its closing brace.
Lit(s) == <<"lit", s>>
Members(d) == <<"members", d>>
\* the three-backquote code fence
Fence == Lit("<fence>")
JsonTag == Lit("json")
Space == Lit(" ")
Junk == Lit("x")
Digit == Lit("5")
Brackets == Lit("[]")
NullWord == Lit("null")
Brace == Lit("}")

\* tokens that stand for exactly one character
OneChar(tok) == tok \in {Space, Junk, Digit, Brace}

\* text.find(a) and text.find(a <> b): first position (1-based) or 0;
\* Python's -1 is 0 here, Python's index i is i+1 here
Find1(t, a, from) ==
  LET hits == {i \in from..Len(t) : t[i] = a}
  IN IF hits = {} THEN 0 ELSE CHOOSE i \in hits : \A j \in hits : i <= j
Find2(t, a, b, from) ==
  LET hits == {i \in from..(Len(t) - 1) : t[i] = a /\ t[i + 1] = b}
  IN IF hits = {} THEN 0 ELSE CHOOSE i \in hits : \A j \in hits : i <= j

\* text[start:end] for a start position and an end that find() returned:
\* end = 0 is Python's -1, the slice that stops before the last character
Slice(t, start, end) ==
  IF end # 0 THEN SubSeq(t, start, end - 1)
  ELSE IF start > Len(t) THEN <<>>
  ELSE IF OneChar(t[Len(t)]) THEN SubSeq(t, start, Len(t) - 1)
  ELSE SubSeq(t, start, Len(t) - 1) \o <<Junk>>

RECURSIVE LStrip(_)
LStrip(t) == IF t # <<>> /\ Head(t) = Space THEN LStrip(Tail(t)) ELSE t
RECURSIVE RStrip(_)
RStrip(t) ==
  IF t # <<>> /\ t[Len(t)] = Space THEN RStrip(SubSeq(t, 1, Len(t) - 1)) ELSE t
\* text.strip()
Strip(t) == RStrip(LStrip(t))

NoSpace(t) == SelectSeq(t, LAMBDA tok : tok # Space)

RECURSIVE DigitsValue(_)
DigitsValue(t) == IF t = <<>> THEN 0 ELSE 10 * DigitsValue(SubSeq(t, 1, Len(t) - 1)) + 5

\* json.loads(text): whitespace is allowed around a value and between the
\* members of an object and its closing brace
loads(t) ==
  LET s == Strip(t)
      n == NoSpace(s)
  IN IF s # <<>> /\ \A i \in 1..Len(s) : s[i] = Digit THEN Ok(JNum(DigitsValue(s)))
     ELSE IF s = <<Brackets>> THEN Ok(JList(<<>>))
     ELSE IF s = <<NullWord>> THEN Ok(JNull)
     ELSE IF Len(n) = 2 /\ n[1][1] = "members" /\ n[2] = Brace THEN Ok(JObj(n[1][2]))
     ELSE Raise("JSONDecodeError", "Expecting value")

\* ------------------------------------------------------------- the clock
Times == 0..MaxClock
\* datetime.utcnow().isoformat() at instant n
isoformat(n) == JStr("utc:" \o ToString(n))

\* --------------------------------------------------------- handler.py
\* StrContains, were a 'detail-type' matched on its last marker only
StrContains_last_marker(sub, s) ==
  CASE s = "CloudWatch Alarm State Change" -> sub = "CloudWatch Alarm"
    [] s = "K8s Pod Failure" -> sub = "K8s Pod"
    [] s = "RDS DB Instance Event" -> sub = "RDS"
    [] s = "CloudWatch Alarm for RDS" -> sub = "RDS"
    [] OTHER -> FALSE

\* sub in s, for the strings an inbound 'detail-type' takes in this model
StrContains(sub, s) ==
  CASE s = "CloudWatch Alarm State Change" -> sub = "CloudWatch Alarm"
    [] s = "K8s Pod Failure" -> sub = "K8s Pod"
    [] s = "RDS DB Instance Event" -> sub = "RDS"
    [] s = "CloudWatch Alarm for RDS" -> sub \in {"CloudWatch Alarm", "RDS"}
    [] OTHER -> FALSE

\* handler.py:125
read_Detail(event) ==
  IF IsStr(Get(event, "Detail", JNull))
  THEN loads(Get(event, "Detail", JText(<<Members(EmptyDict), Brace>>))[2])
  ELSE Ok(Get(event, "Detail", JObj(EmptyDict)))

parse_event(event, now) ==
  IF HasKey(event, "detail-type") /\ StrContains("CloudWatch Alarm", event["detail-type"][2])
  THEN IF ~HasKey(event, "detail") THEN Raise("KeyError", "'detail'")
       ELSE IF ~HasKey(event, "time") THEN Raise("KeyError", "'time'")
       ELSE LET alarm == event["detail"] IN
         IF ~IsDict(alarm) THEN NoGet(alarm)
         ELSE IF ~IsDict(Get(alarm[2], "state", JObj(EmptyDict)))
           THEN NoGet(alarm[2]["state"])
         ELSE IF ~IsDict(Get(alarm[2], "configuration", JObj(EmptyDict)))
           THEN NoGet(alarm[2]["configuration"])
         ELSE LET state == Get(alarm[2], "state", JObj(EmptyDict))[2]
                  configuration == Get(alarm[2], "configuration", JObj(EmptyDict))[2]
              IN Ok(("source" :> JStr("cloudwatch_alarm"))
                    @@ ("type" :> JStr("infrastructure"))
                    @@ ("timestamp" :> event["time"])
                    @@ ("alarm_name" :> Get(alarm[2], "alarmName", JStr("Unknown")))
                    @@ ("state" :> Get(state, "value", JStr("UNKNOWN")))
                    @@ ("reason" :> Get(state, "reason", JStr("")))
                    @@ ("metrics" :> Get(configuration, "metrics", JList(<<>>)))
                    @@ ("namespace" :> Get(configuration, "namespace", JStr("")))
                    @@ ("raw_event" :> JObj(event)))
  ELSE IF HasKey(event, "detail-type") /\ StrContains("K8s Pod", event["detail-type"][2])
  THEN IF ~HasKey(event, "detail") THEN Raise("KeyError", "'detail'")
       ELSE LET detail == event["detail"] IN
         IF ~IsDict(detail) THEN NoGet(detail)
         ELSE Ok(("source" :> JStr("kubernetes"))
                 @@ ("type" :> JStr("pod_failure"))
                 @@ ("timestamp" :> Get(event, "time", isoformat(now)))
                 @@ ("pod_name" :> Get(detail[2], "pod_name",
                                        Get(detail[2], "podName", JStr("Unknown"))))
                 @@ ("namespace" :> Get(detail[2], "namespace", JStr("default")))
                 @@ ("status" :> Get(detail[2], "status", JStr("Unknown")))
                 @@ ("reason" :> Get(detail[2], "reason", JStr("")))
                 @@ ("message" :> Get(detail[2], "message", JStr("")))
                 @@ ("cluster_name" :> Get(detail[2], "cluster_name", JStr("Unknown")))
                 @@ ("node_name" :> Get(detail[2], "node_name", JStr("")))
                 @@ ("restart_count" :> Get(detail[2], "restart_count", JNum(0)))
                 @@ ("raw_event" :> JObj(event)))
  ELSE IF HasKey(event, "detail-type") /\ StrContains("RDS", event["detail-type"][2])
  THEN IF ~HasKey(event, "detail") THEN Raise("KeyError", "'detail'")
       ELSE IF ~HasKey(event, "time") THEN Raise("KeyError", "'time'")
       ELSE LET detail == event["detail"] IN
         IF ~IsDict(detail) THEN NoGet(detail)
         ELSE Ok(("source" :> JStr("rds"))
                 @@ ("type" :> JStr("database_issue"))
                 @@ ("timestamp" :> event["time"])
                 @@ ("db_instance" :> Get(detail[2], "SourceIdentifier", JStr("Unknown")))
                 @@ ("event_category" :> Get(detail[2], "EventCategories", JList(<<>>)))
                 @@ ("message" :> Get(detail[2], "Message", JStr("")))
                 @@ ("raw_event" :> JObj(event)))
  ELSE IF HasKey(event, "Source")
  THEN LET parsed == read_Detail(event) IN
       IF parsed.exc # "" THEN parsed
       ELSE IF ~IsDict(parsed.val) THEN NoGet(parsed.val)
       ELSE LET detail == parsed.val[2] IN
            Ok(("source" :> Get(detail, "source", JStr("kubernetes")))
               @@ ("type" :> Get(detail, "type", JStr("pod_failure")))
               @@ ("timestamp" :> Get(detail, "timestamp", Get(event, "Time", isoformat(now))))
               @@ ("pod_name" :> Get(detail, "pod_name", JStr("Unknown")))
               @@ ("namespace" :> Get(detail, "namespace", JStr("default")))
               @@ ("status" :> Get(detail, "status", JStr("Unknown")))
               @@ ("reason" :> Get(detail, "reason", JStr("")))
               @@ ("message" :> Get(detail, "message", JStr("")))
               @@ ("cluster_name" :> Get(detail, "cluster_name", JStr("Unknown")))
               @@ ("node_name" :> Get(detail, "node_name", JStr("")))
               @@ ("restart_count" :> Get(detail, "restart_count", JNum(0)))
               @@ ("raw_event" :> JObj(event)))
  ELSE Ok(("source" :> JStr("unknown"))
          @@ ("type" :> JStr("generic"))
          @@ ("timestamp" :> isoformat(now))
          @@ ("raw_event" :> JObj(event)))

\* --------------------------------------------------- claude_agent.py
\* json.dumps(incident_data, sort_keys=True) is the same string for two
\* dicts exactly when they have the same keys and values, and the 48 bits
\* kept of the md5 digest are taken to be free of collisions over the
\* incidents of this model: the identifier is represented by the dict hashed.
_generate_incident_id(incident_data) == <<"id", incident_data>>

\* claude_agent.py:194-202
DefaultAnalysis ==
  ("severity" :> JStr("medium"))
  @@ ("title" :> JStr("Incident requires investigation"))
  @@ ("root_cause" :> JStr("Analysis in progress"))
  @@ ("impact" :> JStr("Unknown"))
  @@ ("immediate_actions" :> JList(<<JStr("Investigate the incident")>>))
  @@ ("resolution_steps" :> JList(<<JStr("Manual investigation required")>>))
  @@ ("prevention" :> JList(<<JStr("Review after resolution")>>))

\* claude_agent.py:180-187, the text handed to json.loads
strip_fence(analysis_text) ==
  IF Find2(analysis_text, Fence, JsonTag, 1) # 0
  THEN LET json_start == Find2(analysis_text, Fence, JsonTag, 1) + 2
           json_end == Find1(analysis_text, Fence, json_start)
       IN Strip(Slice(analysis_text, json_start, json_end))
  ELSE IF Find1(analysis_text, Fence, 1) # 0
  THEN LET json_start == Find1(analysis_text, Fence, 1) + 1
           json_end == Find1(analysis_text, Fence, json_start)
       IN Strip(Slice(analysis_text, json_start, json_end))
  ELSE analysis_text

\* stamp, were the keys of the model's object kept when it has them
stamp_model_wins(analysis, incident_data, agent_use_bedrock, now) ==
  analysis
  @@ ("incident_id" :> _generate_incident_id(incident_data))
  @@ ("timestamp" :> Get(incident_data, "timestamp", isoformat(now)))
  @@ ("source" :> Get(incident_data, "source", JStr("unknown")))
  @@ ("analyzed_by" :> JStr(IF agent_use_bedrock THEN "claude-ai-bedrock" ELSE "claude-ai"))

\* analysis[key] = value for the four stamped keys, claude_agent.py:204-207
stamp(analysis, incident_data, agent_use_bedrock, now) ==
  ("incident_id" :> _generate_incident_id(incident_data))
  @@ ("timestamp" :> Get(incident_data, "timestamp", isoformat(now)))
  @@ ("source" :> Get(incident_data, "source", JStr("unknown")))
  @@ ("analyzed_by" :> JStr(IF agent_use_bedrock THEN "claude-ai-bedrock" ELSE "claude-ai"))
  @@ analysis

\* _parse_analysis, were the JSONDecodeError of json.loads left to propagate
_parse_analysis_uncaught(analysis_text, incident_data, agent_use_bedrock, now) ==
  LET parsed == loads(strip_fence(analysis_text))
  IN IF parsed.exc = "JSONDecodeError" THEN parsed
     ELSE IF IsDict(parsed.val)
       THEN Ok(stamp(parsed.val[2], incident_data, agent_use_bedrock, now))
     ELSE Raise("TypeError", "'" \o TypeName(parsed.val) \o "' object does not support item assignment")

\* claude_agent.py:177-209
_parse_analysis(analysis_text, incident_data, agent_use_bedrock, now) ==
  LET parsed == loads(strip_fence(analysis_text))
      analysis == IF parsed.exc = "JSONDecodeError" THEN JObj(DefaultAnalysis) ELSE parsed.val
  IN IF IsDict(analysis) THEN Ok(stamp(analysis[2], incident_data, agent_use_bedrock, now))
     ELSE IF analysis[1] = "list"
       THEN Raise("TypeError", "list indices must be integers or slices, not str")
     ELSE Raise("TypeError",
                "'" \o TypeName(analysis) \o "' object does not support item assignment")

\* the text _call_bedrock returns, claude_agent.py:88-106
_call_bedrock(outcome, text) ==
  CASE outcome = "text" -> text
    [] outcome = "no_content" -> <<Lit("Error: No content in Bedrock response")>>
    [] OTHER -> <<Lit("Error calling Bedrock: "), Lit("backend failure")>>

\* the text _call_anthropic returns, claude_agent.py:110-120; an empty
\* content list raises IndexError inside the try
_call_anthropic(outcome, text) ==
  CASE outcome = "text" -> text
    [] OTHER -> <<Lit("Error calling Anthropic: "), Lit("backend failure")>>

\* -------------------------------------------------- slack_notifier.py
\* bool(v)
Truthy(v) ==
  CASE v[1] = "str" -> v[2] # ""
    [] v[1] = "text" -> v[2] # <<>>
    [] v[1] = "id" -> TRUE
    [] v[1] = "num" -> v[2] # 0
    [] v[1] = "null" -> FALSE
    [] v[1] = "list" -> v[2] # <<>>
    [] OTHER -> DOMAIN v[2] # {}

\* a or b
OrElse(a, b) == IF Truthy(a) THEN a ELSE b

\* s.upper(), for the strings a severity takes in this model
upper(s) ==
  CASE s \in {"critical", "Critical", "CRITICAL"} -> "CRITICAL"
    [] s \in {"high", "HIGH"} -> "HIGH"
    [] s \in {"medium", "MEDIUM"} -> "MEDIUM"
    [] s \in {"low", "LOW"} -> "LOW"
    [] s \in {"urgent", "URGENT"} -> "URGENT"
    [] s \in {"UNKNOWN"} -> "UNKNOWN"

\* slack_notifier.py:246-254
_get_severity_formatting(severity) ==
  CASE upper(severity) = "LOW" -> <<"#36a64f", "green circle">>
    [] upper(severity) = "MEDIUM" -> <<"#ff9900", "yellow circle">>
    [] upper(severity) = "HIGH" -> <<"#ff0000", "red circle">>
    [] upper(severity) = "CRITICAL" -> <<"#8B0000", "siren">>
    [] OTHER -> <<"#808080", "question mark">>

\* the number of recommendations listed, slack_notifier.py:109
MaxListed == 5

\* recommendations_text, were the list cut at MaxListed without the line
\* that counts the rest
recommendations_text_no_suffix(recommendations) ==
  IF ~Truthy(recommendations) THEN Ok(<<<<"none", 0>>>>)
  ELSE CASE recommendations[1] = "list" ->
              LET recs == recommendations[2]
                  shown == SubSeq(recs, 1, IF Len(recs) < MaxListed THEN Len(recs) ELSE MaxListed)
              IN Ok([i \in 1..Len(shown) |-> <<"bullet", shown[i]>>])
         [] OTHER -> Raise("TypeError", "object is not subscriptable")

\* slack_notifier.py:107-113; a line is <<"bullet", rec>>, <<"more", n>> for
\* "... and n more recommendations", or <<"none", 0>>.  recommendations is a
\* list, an int, a dict or a falsy value here.
recommendations_text(recommendations) ==
  IF ~Truthy(recommendations) THEN Ok(<<<<"none", 0>>>>)
  ELSE CASE recommendations[1] = "list" ->
              LET recs == recommendations[2]
                  shown == SubSeq(recs, 1, IF Len(recs) < MaxListed THEN Len(recs) ELSE MaxListed)
                  bullets == [i \in 1..Len(shown) |-> <<"bullet", shown[i]>>]
              IN Ok(IF Len(recs) > MaxListed
                    THEN Append(bullets, <<"more", Len(recs) - MaxListed>>)
                    ELSE bullets)
         [] recommendations[1] = "num" ->
              Raise("TypeError", "'int' object is not subscriptable")
         [] recommendations[1] = "obj" ->
              Raise("TypeError", "unhashable type: 'slice'")

\* slack_notifier.py:87-237; severity is a TLA+ string, the other arguments
\* JSON values.  The formatted time and the footer are left out.
_build_message_payload(severity, incident_id, summary, recommendations, timestamp, source, pod_name, namespace, reason) ==
  LET formatting == _get_severity_formatting(severity)
      text == recommendations_text(recommendations)
      fields == <<<<"Incident ID", incident_id>>, <<"Source", source>>>>
                \o (IF Truthy(pod_name) THEN <<<<"Pod Name", pod_name>>>> ELSE <<>>)
                \o (IF Truthy(namespace) THEN <<<<"Namespace", namespace>>>> ELSE <<>>)
                \o (IF Truthy(reason) THEN <<<<"Reason", reason>>>> ELSE <<>>)
                \o <<<<"Severity", JStr(severity)>>>>
  IN IF text.exc # "" THEN text
     ELSE Ok([header |-> <<formatting[2], severity>>,
              fields |-> fields,
              summary |-> summary,
              recommendations |-> text.val,
              actions |-> IF severity \in {"HIGH", "CRITICAL"}
                          THEN <<"acknowledge_incident", "view_incident_details">>
                          ELSE <<>>,
              color |-> formatting[1]])

\* what requests.post does: answers 200, answers another status, or raises
PostOutcomes == {"200", "500", "raises"}

\* send_incident_alert, were the POST repeated when it does not answer 200
send_incident_alert_retry(analysis, post_outcome) ==
  IF ~IsStr(Get(analysis, "severity", JStr("UNKNOWN")))
  THEN [posts |-> <<>>, returned |-> FALSE]
  ELSE LET payload == _build_message_payload(
                        upper(Get(analysis, "severity", JStr("UNKNOWN"))[2]),
                        Get(analysis, "incident_id", JStr("UNKNOWN")),
                        OrElse(Get(analysis, "summary", JNull),
                               Get(analysis, "title", JStr("No summary provided"))),
                        OrElse(Get(analysis, "recommendations", JNull),
                               Get(analysis, "immediate_actions", JList(<<>>))),
                        Get(analysis, "timestamp", JNull),
                        Get(analysis, "source", JStr("Unknown")),
                        Get(analysis, "pod_name", JStr("")),
                        Get(analysis, "namespace", JStr("")),
                        Get(analysis, "reason", JStr("")))
       IN IF payload.exc # "" THEN [posts |-> <<>>, returned |-> FALSE]
          ELSE IF post_outcome = "200" THEN [posts |-> <<payload.val>>, returned |-> TRUE]
          ELSE [posts |-> <<payload.val, payload.val>>, returned |-> FALSE]

\* slack_notifier.py:29-85: the POSTs attempted and the bool returned; every
\* exception is caught at line 83
send_incident_alert(analysis, post_outcome) ==
  IF ~IsStr(Get(analysis, "severity", JStr("UNKNOWN")))
  THEN [posts |-> <<>>, returned |-> FALSE]
  ELSE LET severity == upper(Get(analysis, "severity", JStr("UNKNOWN"))[2])
           payload == _build_message_payload(
                        severity,
                        Get(analysis, "incident_id", JStr("UNKNOWN")),
                        OrElse(Get(analysis, "summary", JNull),
                               Get(analysis, "title", JStr("No summary provided"))),
                        OrElse(Get(analysis, "recommendations", JNull),
                               Get(analysis, "immediate_actions", JList(<<>>))),
                        Get(analysis, "timestamp", JNull),
                        Get(analysis, "source", JStr("Unknown")),
                        Get(analysis, "pod_name", JStr("")),
                        Get(analysis, "namespace", JStr("")),
                        Get(analysis, "reason", JStr("")))
       IN IF payload.exc # "" THEN [posts |-> <<>>, returned |-> FALSE]
          ELSE [posts |-> <<payload.val>>, returned |-> post_outcome = "200"]

\* ------------------------------------------- handler.py, notifications
\* should_page, were the severity threshold left out
should_page_any_severity(available, pagerduty_key, severity) ==
  /\ available
  /\ Truthy(pagerduty_key)
  /\ pagerduty_key # JStr("")

\* the condition of handler.py:179
should_page(available, pagerduty_key, severity) ==
  /\ available
  /\ Truthy(pagerduty_key)
  /\ pagerduty_key # JStr("")
  /\ severity \in {JStr("critical"), JStr("high")}

\* what PagerDutyNotifier(key).create_incident(analysis) does: returns or raises
PageOutcomes == {"ok", "raises"}

\* handler.py:157-165, {**analysis, 'pod_name': ..., ...}
analysis_with_context(analysis, incident_data) ==
  ("pod_name" :> Get(incident_data, "pod_name", JStr("")))
  @@ ("namespace" :> Get(incident_data, "namespace", JStr("")))
  @@ ("reason" :> Get(incident_data, "reason", JStr("")))
  @@ ("cluster_name" :> Get(incident_data, "cluster_name", JStr("")))
  @@ ("node_name" :> Get(incident_data, "node_name", JStr("")))
  @@ ("restart_count" :> Get(incident_data, "restart_count", JNum(0)))
  @@ analysis

\* handler.py:167-176: the chat channel.  slack is "skipped", "sent" (the
\* alert returned True) or "failed" (it returned False).
slack_channel(slack_webhook, analysis, incident_data, post_outcome) ==
  IF Truthy(slack_webhook)
  THEN LET alert == send_incident_alert(analysis_with_context(analysis, incident_data),
                                        post_outcome)
       IN [posts |-> alert.posts,
           slack |-> IF alert.returned THEN "sent" ELSE "failed",
           log |-> <<"Slack notification sent successfully">>]
  ELSE [posts |-> <<>>, slack |-> "skipped", log |-> <<"Slack webhook not configured">>]

\* handler.py:178-189: the paging channel.  pagerduty is "skipped", "sent"
\* or "failed" (the notifier raised, caught at line 184).
pagerduty_channel(available, pagerduty_key, analysis, severity, page_outcome) ==
  IF should_page(available, pagerduty_key, severity)
  THEN [pages |-> <<analysis>>,
        pagerduty |-> IF page_outcome = "ok" THEN "sent" ELSE "failed",
        log |-> IF page_outcome = "ok"
                THEN <<"PagerDuty notification sent successfully">>
                ELSE <<"Error sending PagerDuty notification">>]
  ELSE [pages |-> <<>>,
        pagerduty |-> "skipped",
        log |-> IF ~available THEN <<"PagerDuty integration not available, skipping">>
                ELSE IF ~Truthy(pagerduty_key) \/ pagerduty_key = JStr("")
                  THEN <<"PagerDuty not configured, skipping">>
                ELSE <<>>]

\* send_notifications, were a failed chat delivery left to raise
send_notifications_unisolated(analysis, severity, incident_data, environ, available, post_outcome, page_outcome) ==
  LET slack_webhook == Get(environ, "SLACK_WEBHOOK_URL", JNull)
      pagerduty_key == Get(environ, "PAGERDUTY_INTEGRATION_KEY", JNull)
      chat == slack_channel(slack_webhook, analysis, incident_data, post_outcome)
      paging == pagerduty_channel(available, pagerduty_key, analysis, severity, page_outcome)
  IN IF chat.slack = "failed"
     THEN RaiseAfter("Exception", "chat delivery failed",
                     [posts |-> chat.posts, pages |-> <<>>, slack |-> chat.slack,
                      pagerduty |-> "", log |-> <<>>])
     ELSE Ok([posts |-> chat.posts,
              pages |-> paging.pages,
              slack |-> chat.slack,
              pagerduty |-> paging.pagerduty,
              log |-> chat.log \o paging.log])

\* send_notifications, were an exception of the paging notifier left to raise
send_notifications_page_unguarded(analysis, severity, incident_data, environ, available, post_outcome, page_outcome) ==
  LET slack_webhook == Get(environ, "SLACK_WEBHOOK_URL", JNull)
      pagerduty_key == Get(environ, "PAGERDUTY_INTEGRATION_KEY", JNull)
      chat == slack_channel(slack_webhook, analysis, incident_data, post_outcome)
      paging == pagerduty_channel(available, pagerduty_key, analysis, severity, page_outcome)
      done == [posts |-> chat.posts,
               pages |-> paging.pages,
               slack |-> chat.slack,
               pagerduty |-> paging.pagerduty,
               log |-> chat.log]
  IN IF paging.pagerduty = "failed" THEN RaiseAfter("Exception", "paging failed", done)
     ELSE Ok([done EXCEPT !.log = chat.log \o paging.log])

\* handler.py:151-189
send_notifications(analysis, severity, incident_data, environ, available, post_outcome, page_outcome) ==
  LET slack_webhook == Get(environ, "SLACK_WEBHOOK_URL", JNull)
      pagerduty_key == Get(environ, "PAGERDUTY_INTEGRATION_KEY", JNull)
      chat == slack_channel(slack_webhook, analysis, incident_data, post_outcome)
      paging == pagerduty_channel(available, pagerduty_key, analysis, severity, page_outcome)
  IN Ok([posts |-> chat.posts,
         pages |-> paging.pages,
         slack |-> chat.slack,
         pagerduty |-> paging.pagerduty,
         log |-> chat.log \o paging.log])

\* -------------------------------------------------- k8s_collector.py
\* what the cluster answers to the three reads, and the owner references it
\* holds: owner is the kind of the pod's owner, rs_owner that of the ReplicaSet
Clusters ==
  [pod_read : {"ok", "raises"},
   owner : {"none", "ReplicaSet", "Job"},
   rs_read : {"ok", "raises"},
   rs_owner : {"none", "Deployment"},
   deployment_read : {"ok", "raises"}]

\* the keys of k8s_collector.py:72-84, read from the pod
PodContext(cluster_name, cluster) ==
  ("cluster_name" :> cluster_name)
  @@ ("pod_ip" :> JStr("10.0.0.7"))
  @@ ("host_ip" :> JStr("10.0.0.1"))
  @@ ("phase" :> JStr("Running"))
  @@ ("qos_class" :> JStr("Burstable"))
  @@ ("start_time" :> JNull)
  @@ ("owner_references" :>
        JList(IF cluster.owner = "none" THEN <<>> ELSE <<JStr(cluster.owner)>>))
  @@ ("resource_requests" :> JObj(EmptyDict))
  @@ ("resource_limits" :> JObj(EmptyDict))
  @@ ("environment_variables" :> JObj(EmptyDict))
  @@ ("volume_mounts" :> JObj(EmptyDict))
  @@ ("conditions" :> JList(<<>>))
  @@ ("container_statuses" :> JList(<<>>))

\* k8s_collector.py:299-338: EmptyDict stands for None
_get_owner_context(cluster) ==
  IF cluster.owner # "ReplicaSet" THEN EmptyDict
  ELSE IF cluster.rs_read = "raises" THEN EmptyDict
  ELSE IF cluster.rs_owner = "Deployment"
  THEN IF cluster.deployment_read = "raises" THEN EmptyDict
       ELSE ("deployment_name" :> JStr("api"))
            @@ ("deployment_replicas" :> JNum(3))
            @@ ("deployment_ready_replicas" :> JNum(0))
            @@ ("deployment_strategy" :> JStr("RollingUpdate"))
  ELSE ("replicaset_name" :> JStr("api-5d4f"))
       @@ ("replicaset_replicas" :> JNum(3))

\* k8s_collector.py:46-97
enrich_pod_event(v1, cluster_name, pod_data, cluster) ==
  IF ~v1 THEN pod_data
  ELSE IF ~Truthy(Get(pod_data, "pod_name", JNull)) THEN pod_data
  ELSE IF cluster.pod_read = "raises" THEN pod_data
  ELSE LET enriched_data == PodContext(cluster_name, cluster) @@ pod_data
           owner_info == _get_owner_context(cluster)
       IN IF owner_info # EmptyDict THEN owner_info @@ enriched_data ELSE enriched_data

\* ----------------------------------------------------------- the inputs
\* a key that is absent, or present with one of the values V
Opt(k, V) == {EmptyDict} \cup {k :> v : v \in V}

\* the pod records handed to enrich_pod_event
PodRecords ==
  {pn @@ ns @@ cn :
     pn \in Opt("pod_name", {JStr("api-0"), JStr("")}),
     ns \in Opt("namespace", {JStr("prod")}),
     cn \in Opt("cluster_name", {JStr("stale")})}

DetailTypes ==
  {"CloudWatch Alarm State Change", "K8s Pod Failure", "RDS DB Instance Event",
   "CloudWatch Alarm for RDS", "EC2 Instance State-change Notification"}

EventTime == JStr("2024-05-01T10:00:00Z")

AlarmDetail ==
  ("alarmName" :> JStr("cpu-high"))
  @@ ("state" :> JObj(("value" :> JStr("ALARM")) @@ ("reason" :> JStr("Threshold Crossed"))))
  @@ ("configuration" :> JObj(("metrics" :> JList(<<JStr("CPUUtilization")>>))
                              @@ ("namespace" :> JStr("AWS/EC2"))))
PodDetail ==
  ("pod_name" :> JStr("api-0"))
  @@ ("namespace" :> JStr("prod"))
  @@ ("status" :> JStr("CrashLoopBackOff"))
  @@ ("reason" :> JStr("BackOff"))
  @@ ("restart_count" :> JNum(5))
RdsDetail ==
  ("SourceIdentifier" :> JStr("db-1"))
  @@ ("EventCategories" :> JList(<<JStr("failover")>>))
  @@ ("Message" :> JStr("Multi-AZ failover started"))

\* values of the 'detail' key
Details ==
  {JObj(EmptyDict), JObj(AlarmDetail), JObj("state" :> JStr("ALARM")), JObj(PodDetail),
   JObj("podName" :> JStr("api-0")), JObj(RdsDetail), JStr("not an object")}

\* objects carried by the 'Detail' key of a direct bus delivery
WatcherDetails ==
  {EmptyDict, PodDetail, PodDetail @@ ("timestamp" :> EventTime)}
  \cup {k :> v : k \in {"source", "type", "timestamp"}, v \in {JStr(""), JNull}}
  \cup {"source" :> JStr("custom"), "type" :> JStr("oom_kill")}

\* values of the 'Detail' key: text that is not JSON, JSON text of a number,
\* None, and an object either as JSON text or already structured
DetailValues ==
  {JText(<<Junk>>), JText(<<Digit>>), JNull}
  \cup {JText(<<Members(d), Brace>>) : d \in WatcherDetails}
  \cup {JObj(d) : d \in WatcherDetails}

\* the inbound events of the normalizer
Events ==
  {dt @@ de @@ ti @@ so @@ dd @@ tt :
     dt \in Opt("detail-type", {JStr(s) : s \in DetailTypes}),
     de \in Opt("detail", Details),
     ti \in Opt("time", {EventTime}),
     so \in Opt("Source", {JStr("k8s.watcher")}),
     dd \in Opt("Detail", DetailValues),
     tt \in Opt("Time", {EventTime})}

\* the inbound events followed through a whole invocation
HandlerEvents ==
  {EmptyDict,
   ("detail-type" :> JStr("CloudWatch Alarm State Change"))
     @@ ("detail" :> JObj(AlarmDetail)) @@ ("time" :> EventTime),
   ("detail-type" :> JStr("CloudWatch Alarm State Change")) @@ ("time" :> EventTime),
   ("detail-type" :> JStr("K8s Pod Failure"))
     @@ ("detail" :> JObj(PodDetail)) @@ ("time" :> EventTime),
   ("detail-type" :> JStr("K8s Pod Failure")) @@ ("detail" :> JObj(PodDetail)),
   ("detail-type" :> JStr("RDS DB Instance Event"))
     @@ ("detail" :> JObj(RdsDetail)) @@ ("time" :> EventTime),
   ("Source" :> JStr("k8s.watcher")) @@ ("Detail" :> JText(<<Members(PodDetail), Brace>>)),
   ("Source" :> JStr("k8s.watcher")) @@ ("Detail" :> JObj("source" :> JStr("")))
     @@ ("Time" :> EventTime)}

\* the four severity labels
SeverityLabels == {JStr("critical"), JStr("high"), JStr("medium"), JStr("low")}

\* what the model puts in the 'severity' key
ModelSeverities ==
  {JStr("critical"), JStr("high"), JStr("medium"), JStr("low"),
   JStr("HIGH"), JStr("Critical"), JStr("urgent"), JNum(5)}

\* the six content keys other than 'severity'
ModelContent ==
  ("title" :> JStr("Pod api-0 is crash looping"))
  @@ ("root_cause" :> JStr("Bad configuration"))
  @@ ("impact" :> JStr("API unavailable"))
  @@ ("immediate_actions" :> JList(<<JStr("Roll back"), JStr("Check logs")>>))
  @@ ("resolution_steps" :> JList(<<JStr("Fix the configuration")>>))
  @@ ("prevention" :> JList(<<>>))

\* identity keys a model reply may carry of its own accord
ModelIdentity ==
  ("incident_id" :> JStr("INC-000000000000"))
  @@ ("timestamp" :> JStr("1970-01-01T00:00:00"))
  @@ ("source" :> JStr("model"))
  @@ ("analyzed_by" :> JStr("model"))

\* the JSON objects a model reply may hold
ModelObjects ==
  {se @@ co @@ id :
     se \in Opt("severity", ModelSeverities),
     co \in {EmptyDict, ModelContent},
     id \in {EmptyDict, ModelIdentity}}

\* what a reply holds between its fences
Bodies ==
  {<<>>, <<Junk>>, <<Digit>>, <<Brackets>>, <<NullWord>>, <<Space, Digit, Space>>}
  \cup {<<Members(d), Brace>> : d \in ModelObjects}
  \cup {<<Members(d)>> : d \in ModelObjects}
  \cup {<<Space, Members(d), Space, Brace, Space>> : d \in ModelObjects}

\* the reply texts of the reconciler: prose, opening fence, body, closing
\* fence, prose
Texts ==
  {pre \o open \o body \o close \o post :
     pre \in {<<>>, <<Junk>>},
     open \in {<<>>, <<Fence>>, <<Fence, JsonTag>>},
     body \in Bodies,
     close \in {<<>>, <<Fence>>},
     post \in {<<>>, <<Junk>>}}

\* replies cut short: an object without its closing brace, and a fenced object
\* whose closing fence is missing
TruncatedTexts ==
  {<<Members(("severity" :> JStr("high")) @@ ModelContent)>>,
   <<Fence, JsonTag, Members(("severity" :> JStr("high")) @@ ModelContent), Brace>>}

\* the reply texts followed through a whole invocation
HandlerTexts ==
  {<<Junk>>, <<Digit>>}
  \cup {<<Members(d), Brace>> : d \in ModelObjects}
  \cup {<<Fence, JsonTag, Members(d), Brace, Fence>> :
          d \in {o \in ModelObjects : DOMAIN o = DOMAIN ModelContent \cup {"severity"}}}
  \cup TruncatedTexts

BackendOutcomes == {"text", "no_content", "raises"}

\* os.environ
Environs ==
  {ub @@ sw @@ pk :
     ub \in {EmptyDict, "USE_BEDROCK" :> JStr("0"),
              ("USE_BEDROCK" :> JStr("0")) @@ ("CLAUDE_API_KEY" :> JStr("sk-ant"))},
     sw \in Opt("SLACK_WEBHOOK_URL", {JStr(""), JStr("https://hooks.slack.example/T0")}),
     pk \in Opt("PAGERDUTY_INTEGRATION_KEY", {JStr(""), JStr("pd-key")})}

\* ------------------------------------------------------------ the state
VARIABLES
  pc,                  \* position in lambda_handler: "init", "parse", "infer",
                       \* "reconcile", "notify", "done"
  event,               \* the inbound event
  environ,             \* os.environ
  PAGERDUTY_AVAILABLE, \* handler.py:13-17
  anthropic_installed, \* whether import anthropic succeeds, claude_agent.py:45
  agent_use_bedrock,   \* agent.use_bedrock
  incident_data,       \* what parse_event returned
  backend_outcome,     \* what the inference backend did: "text", "no_content", "raises"
  analysis_text,       \* what the inference backend call returned
  analysis,            \* what analyze_incident returned
  response,            \* what lambda_handler returned
  calls,               \* the external calls made, in order
  posts,               \* payloads POSTed to the chat webhook
  pages,               \* analyses handed to the paging notifier
  channels,            \* outcome of each channel
  log,                 \* lines printed by send_notifications
  failed_at,           \* the step whose exception reached handler.py:63
  run,                 \* deliveries of the event so far
  prev_id,             \* incident_id of the previous delivery's analysis
  v1,                  \* whether the collector has a cluster client (self.v1)
  pod_data,            \* the record handed to enrich_pod_event
  cluster,             \* what the cluster answers
  enriched             \* what enrich_pod_event returned

vars ==
  <<pc, event, environ, PAGERDUTY_AVAILABLE, anthropic_installed, agent_use_bedrock,
    incident_data, backend_outcome, analysis_text, analysis, response, calls, posts,
    pages, channels, log, failed_at, run, prev_id, v1, pod_data, cluster, enriched>>

collector_vars == <<v1, pod_data, cluster, enriched>>

NoCluster ==
  [pod_read |-> "ok", owner |-> "none", rs_read |-> "ok", rs_owner |-> "none",
   deployment_read |-> "ok"]

\* no collector is built by lambda_handler
NoCollector ==
  /\ v1 = FALSE
  /\ pod_data = EmptyDict
  /\ cluster = NoCluster
  /\ enriched = EmptyDict

NoResponse == [statusCode |-> 0, body |-> EmptyDict]
NoChannels == [slack |-> "", pagerduty |-> ""]

\* the state of lambda_handler before an invocation starts
Fresh_handler ==
  /\ agent_use_bedrock = TRUE
  /\ incident_data = EmptyDict
  /\ backend_outcome = ""
  /\ analysis_text = <<>>
  /\ analysis = EmptyDict
  /\ response = NoResponse
  /\ calls = <<>>
  /\ posts = <<>>
  /\ pages = <<>>
  /\ channels = NoChannels
  /\ log = <<>>
  /\ failed_at = ""
  /\ run = 1
  /\ prev_id = JNull

\* the state of an invocation that has not started
Fresh == Fresh_handler /\ NoCollector

Init ==
  /\ pc = "init"
  /\ event \in HandlerEvents
  /\ environ \in Environs
  /\ PAGERDUTY_AVAILABLE \in BOOLEAN
  /\ anthropic_installed \in (IF HasKey(environ, "CLAUDE_API_KEY") THEN BOOLEAN ELSE {TRUE})
  /\ Fresh

\* handler.py:63-70: the exception r raised by the step is caught
Fail(step, r) ==
  /\ pc' = "done"
  /\ failed_at' = step
  /\ response' = [statusCode |-> 500, body |-> ("error" :> JStr(r.msg))]

\* handler.py:28-40 and ClaudeIncidentAgent.__init__
InitAgent ==
  /\ pc = "init"
  /\ IF Get(environ, "USE_BEDROCK", JStr("1")) = JStr("1")
     THEN /\ agent_use_bedrock' = TRUE
          /\ pc' = "parse"
          /\ UNCHANGED <<failed_at, response>>
     ELSE IF ~HasKey(environ, "CLAUDE_API_KEY")
     THEN /\ Fail("init", Raise("KeyError", "'CLAUDE_API_KEY'"))
          /\ UNCHANGED agent_use_bedrock
     ELSE /\ agent_use_bedrock' = ~anthropic_installed
          /\ pc' = "parse"
          /\ UNCHANGED <<failed_at, response>>
  /\ UNCHANGED <<event, environ, PAGERDUTY_AVAILABLE, anthropic_installed, incident_data,
                 backend_outcome, analysis_text, analysis, calls, posts, pages, channels, log,
                 run, prev_id>>
  /\ UNCHANGED collector_vars

\* handler.py:43
CallParseEvent ==
  /\ pc = "parse"
  /\ \E now \in Times :
       LET r == parse_event(event, now) IN
       IF r.exc = ""
       THEN /\ incident_data' = r.val
            /\ pc' = "infer"
            /\ UNCHANGED <<failed_at, response>>
       ELSE /\ Fail("parse", r)
            /\ UNCHANGED incident_data
  /\ UNCHANGED <<event, environ, PAGERDUTY_AVAILABLE, anthropic_installed, agent_use_bedrock,
                 backend_outcome, analysis_text, analysis, calls, posts, pages, channels, log,
                 run, prev_id>>
  /\ UNCHANGED collector_vars

\* handler.py:46, claude_agent.py:63-71: the one call of the inference backend
CallModel ==
  /\ pc = "infer"
  /\ \E outcome \in BackendOutcomes, text \in HandlerTexts :
       /\ backend_outcome' = outcome
       /\ analysis_text' = IF agent_use_bedrock THEN _call_bedrock(outcome, text)
                           ELSE _call_anthropic(outcome, text)
  /\ calls' = Append(calls, "inference")
  /\ pc' = "reconcile"
  /\ UNCHANGED <<event, environ, PAGERDUTY_AVAILABLE, anthropic_installed, agent_use_bedrock,
                 incident_data, analysis, response, posts, pages, channels, log, failed_at,
                 run, prev_id>>
  /\ UNCHANGED collector_vars

\* claude_agent.py:73-77
CallParseAnalysis ==
  /\ pc = "reconcile"
  /\ \E now \in Times :
       LET r == _parse_analysis(analysis_text, incident_data, agent_use_bedrock, now) IN
       IF r.exc = ""
       THEN /\ analysis' = r.val
            /\ pc' = "notify"
            /\ UNCHANGED <<failed_at, response>>
       ELSE /\ Fail("reconcile", r)
            /\ UNCHANGED analysis
  /\ UNCHANGED <<event, environ, PAGERDUTY_AVAILABLE, anthropic_installed, agent_use_bedrock,
                 incident_data, backend_outcome, analysis_text, calls, posts, pages,
                 channels, log, run, prev_id>>
  /\ UNCHANGED collector_vars

\* handler.py:49-61
Notify ==
  /\ pc = "notify"
  /\ IF ~HasKey(analysis, "severity")
     THEN /\ Fail("severity", Raise("KeyError", "'severity'"))
          /\ UNCHANGED <<calls, posts, pages, channels, log>>
     ELSE \E post_outcome \in PostOutcomes, page_outcome \in PageOutcomes :
          LET severity == analysis["severity"]
              r == send_notifications(analysis, severity, incident_data, environ,
                                      PAGERDUTY_AVAILABLE, post_outcome, page_outcome)
          IN /\ posts' = r.val.posts
             /\ pages' = r.val.pages
             /\ channels' = [slack |-> r.val.slack, pagerduty |-> r.val.pagerduty]
             /\ log' = r.val.log
             /\ calls' = calls \o [i \in 1..Len(r.val.posts) |-> "chat"]
                               \o [i \in 1..Len(r.val.pages) |-> "paging"]
             /\ IF r.exc = ""
                THEN /\ response' = [statusCode |-> 200,
                                     body |-> ("message" :> JStr("Incident analyzed successfully"))
                                              @@ ("severity" :> severity)
                                              @@ ("incident_id" :> analysis["incident_id"])]
                     /\ pc' = "done"
                     /\ UNCHANGED failed_at
                ELSE Fail("notify", r)
  /\ UNCHANGED <<event, environ, PAGERDUTY_AVAILABLE, anthropic_installed, agent_use_bedrock,
                 incident_data, backend_outcome, analysis_text, analysis, run, prev_id>>
  /\ UNCHANGED collector_vars

Next == InitAgent \/ CallParseEvent \/ CallModel \/ CallParseAnalysis \/ Notify

Spec == Init /\ [][Next]_vars

\* ---------------------------------------- the normalizer on its own
\* parse_event applied to every event of Events
InitNormalize ==
  /\ pc = "parse"
  /\ event \in Events
  /\ environ = EmptyDict
  /\ PAGERDUTY_AVAILABLE = FALSE
  /\ anthropic_installed = TRUE
  /\ Fresh

NextNormalize == CallParseEvent

SpecNormalize == InitNormalize /\ [][NextNormalize]_vars

\* ---------------------------------------- the reconciler on its own
\* the canonical incidents of the events of HandlerEvents
Incidents ==
  {parse_event(e, now).val : e \in {h \in HandlerEvents : parse_event(h, 0).exc = ""},
                             now \in Times}

\* _parse_analysis applied to every text of Texts
InitReconcile ==
  /\ pc = "reconcile"
  /\ event = EmptyDict
  /\ environ = EmptyDict
  /\ PAGERDUTY_AVAILABLE = FALSE
  /\ anthropic_installed = TRUE
  /\ agent_use_bedrock \in BOOLEAN
  /\ incident_data \in Incidents
  /\ backend_outcome = "text"
  /\ analysis_text \in Texts
  /\ analysis = EmptyDict
  /\ response = NoResponse
  /\ calls = <<"inference">>
  /\ posts = <<>>
  /\ pages = <<>>
  /\ channels = NoChannels
  /\ log = <<>>
  /\ failed_at = ""
  /\ run = 1
  /\ prev_id = JNull
  /\ NoCollector

NextReconcile == CallParseAnalysis

SpecReconcile == InitReconcile /\ [][NextReconcile]_vars

\* ------------------------------- the same event delivered more than once
\* the event bus delivers the event of the finished analysis again
Redeliver ==
  /\ pc \in {"notify", "done"}
  /\ run < MaxRuns
  /\ run' = run + 1
  /\ prev_id' = IF pc = "notify" THEN analysis["incident_id"] ELSE prev_id
  /\ pc' = "parse"
  /\ incident_data' = EmptyDict
  /\ backend_outcome' = ""
  /\ analysis_text' = <<>>
  /\ analysis' = EmptyDict
  /\ response' = NoResponse
  /\ calls' = <<>>
  /\ failed_at' = ""
  /\ UNCHANGED <<event, environ, PAGERDUTY_AVAILABLE, anthropic_installed, agent_use_bedrock,
                 posts, pages, channels, log>>
  /\ UNCHANGED collector_vars

InitReplay ==
  /\ pc = "parse"
  /\ event \in HandlerEvents
  /\ environ = EmptyDict
  /\ PAGERDUTY_AVAILABLE = FALSE
  /\ anthropic_installed = TRUE
  /\ Fresh

NextReplay == CallParseEvent \/ CallModel \/ CallParseAnalysis \/ Redeliver

SpecReplay == InitReplay /\ [][NextReplay]_vars

\* ---------------------------------------- the collector on its own
InitEnrich ==
  /\ pc = "enrich"
  /\ event = EmptyDict
  /\ environ \in Opt("K8S_CLUSTER_NAME", {JStr("prod-eks")})
  /\ PAGERDUTY_AVAILABLE = FALSE
  /\ anthropic_installed = TRUE
  /\ Fresh_handler
  /\ v1 \in BOOLEAN
  /\ pod_data \in PodRecords
  /\ cluster \in Clusters
  /\ enriched = EmptyDict

\* K8sDataCollector().enrich_pod_event(pod_data)
EnrichPodEvent ==
  /\ pc = "enrich"
  /\ enriched' = enrich_pod_event(v1, Get(environ, "K8S_CLUSTER_NAME", JStr("unknown")),
                                  pod_data, cluster)
  /\ pc' = "enriched"
  /\ UNCHANGED <<event, environ, PAGERDUTY_AVAILABLE, anthropic_installed, agent_use_bedrock,
                 incident_data, backend_outcome, analysis_text, analysis, response, calls,
                 posts, pages, channels, log, failed_at, run, prev_id, v1, pod_data, cluster>>

NextEnrich == EnrichPodEvent

SpecEnrich == InitEnrich /\ [][NextEnrich]_vars

\* ------------------------------- the chat message of a list of any length
\* the longest list of recommendations
MaxRecs == 7

\* a list of n recommendations
Recs(n) == JList([i \in 1..n |-> JStr("action " \o ToString(i))])

\* the analyses handed to send_notifications: the list under either key that
\* slack_notifier.py:46 reads
PayloadAnalyses ==
  {stamp(se @@ re @@ ("title" :> JStr("Pod api-0 is crash looping")), EmptyDict, TRUE, 0) :
     se \in {"severity" :> v : v \in SeverityLabels},
     re \in {k :> Recs(n) : k \in {"recommendations", "immediate_actions"}, n \in 0..MaxRecs}}

InitPayload ==
  /\ pc = "notify"
  /\ event = EmptyDict
  /\ environ \in {e \in Environs : ~HasKey(e, "USE_BEDROCK")
                                    /\ HasKey(e, "SLACK_WEBHOOK_URL")
                                    /\ Truthy(e["SLACK_WEBHOOK_URL"])}
  /\ PAGERDUTY_AVAILABLE \in BOOLEAN
  /\ anthropic_installed = TRUE
  /\ agent_use_bedrock = TRUE
  /\ incident_data = EmptyDict
  /\ backend_outcome = "text"
  /\ analysis_text = <<>>
  /\ analysis \in PayloadAnalyses
  /\ response = NoResponse
  /\ calls = <<"inference">>
  /\ posts = <<>>
  /\ pages = <<>>
  /\ channels = NoChannels
  /\ log = <<>>
  /\ failed_at = ""
  /\ run = 1
  /\ prev_id = JNull
  /\ NoCollector

NextPayload == Notify

SpecPayload == InitPayload /\ [][NextPayload]_vars

\* ------------------------------------------------------------ properties
RequiredFields ==
  {"severity", "title", "root_cause", "impact", "immediate_actions", "resolution_steps",
   "prevention", "incident_id", "timestamp", "source", "analyzed_by"}

\* a str that is not empty
NonEmpty(v) == IsStr(v) /\ Truthy(v)

\* the three conditions of the paging channel, read off the deployment
PagingConditions ==
  /\ PAGERDUTY_AVAILABLE
  /\ HasKey(environ, "PAGERDUTY_INTEGRATION_KEY")
  /\ environ["PAGERDUTY_INTEGRATION_KEY"] # JStr("")
  /\ HasKey(analysis, "severity")
  /\ analysis["severity"] \in {JStr("critical"), JStr("high")}

\* C1: parse_event returns a canonical incident for every inbound event; no
\* exception of parse_event reaches the handler.
C1_ParseEventTotal == failed_at # "parse"

\* C2: _parse_analysis returns an analysis for every reply text; no exception
\* of _parse_analysis reaches the handler.
C2_ParseAnalysisTotal == failed_at # "reconcile"

\* C3: every analysis returned by _parse_analysis, and so handed on to
\* lambda_handler and send_notifications, has all the required fields.
C3_FullyPopulated == pc = "notify" => RequiredFields \subseteq DOMAIN analysis

\* C4: a second delivery of the same inbound event gets the incident_id the
\* first delivery got, whatever the clock and the model replies.
C4_SameEventSameId ==
  (pc = "notify" /\ prev_id # JNull) => analysis["incident_id"] = prev_id

\* C5: in every analysis returned by _parse_analysis, incident_id is the
\* identifier derived from the canonical incident, and source and timestamp
\* are the canonical incident's, whatever the model's object carries.
C5_IdentityAuthoritative ==
  pc = "notify" =>
    /\ analysis["incident_id"] = _generate_incident_id(incident_data)
    /\ analysis["source"] = incident_data["source"]
    /\ analysis["timestamp"] = incident_data["timestamp"]

\* C5 witness: an analysis returned for a reply whose JSON object carries an
\* incident_id, a source and a timestamp of its own.
C5_Witness ==
  /\ pc = "notify"
  /\ LET parsed == loads(strip_fence(analysis_text))
     IN /\ parsed.exc = ""
        /\ IsDict(parsed.val)
        /\ \A k \in {"incident_id", "source", "timestamp"} :
             HasKey(parsed.val[2], k) /\ parsed.val[2][k] # analysis[k]

\* C6: once send_notifications has returned, the paging notifier was handed
\* the analysis exactly when the client is available, the integration key is
\* set and not empty, and the severity is 'high' or 'critical'; it is handed
\* nothing before.
C6_PagingIff ==
  /\ pc # "done" => pages = <<>>
  /\ (pc = "done" /\ response.statusCode = 200) =>
       /\ PagingConditions => pages = <<analysis>>
       /\ ~PagingConditions => pages = <<>>

\* C6 witness: a finished invocation that paged.
C6_Witness == pc = "done" /\ response.statusCode = 200 /\ pages = <<analysis>>

\* C7: once the analysis is complete and its severity read, no outcome of
\* either channel reaches the handler's except clause: the response is 200,
\* and the paging channel is attempted whenever its three conditions hold,
\* also when the chat delivery failed.
C7_ChannelIsolation ==
  /\ failed_at # "notify"
  /\ (pc = "done" /\ failed_at = "") =>
       /\ response.statusCode = 200
       /\ PagingConditions => pages # <<>>

\* C7 witness: the chat delivery failed, the paging notifier raised, and the
\* invocation returned 200.
C7_Witness ==
  /\ pc = "done"
  /\ channels = [slack |-> "failed", pagerduty |-> "failed"]
  /\ pages # <<>>
  /\ response.statusCode = 200

\* C8: every invocation returns 200 with the severity and the incident_id
\* when parse_event, the backend call and _parse_analysis completed, and 500
\* with the error text otherwise.
C8_ExitContract ==
  pc = "done" =>
    IF failed_at \in {"init", "parse", "reconcile"}
    THEN response.statusCode = 500 /\ HasKey(response.body, "error")
    ELSE /\ response.statusCode = 200
         /\ HasKey(response.body, "severity")
         /\ HasKey(response.body, "incident_id")

\* C9: a severity the model supplies in any letter case of one of the four
\* labels is the lowercase label in the analysis analyze_incident returns and
\* in the response of the handler.
C9_SeverityLowercase ==
  (/\ pc = "done"
   /\ response.statusCode = 200
   /\ IsStr(analysis["severity"])
   /\ upper(analysis["severity"][2]) \in {"CRITICAL", "HIGH", "MEDIUM", "LOW"})
  => /\ analysis["severity"] \in SeverityLabels
     /\ response.body["severity"] \in SeverityLabels

\* C10: every canonical incident parse_event returns has a non-empty source,
\* type and timestamp.
C10_CoreFieldsNonEmpty ==
  pc = "infer" =>
    \A k \in {"source", "type", "timestamp"} :
      HasKey(incident_data, k) /\ NonEmpty(incident_data[k])

SourceTags ==
  {JStr("cloudwatch_alarm"), JStr("kubernetes"), JStr("rds"), JStr("unknown"), JStr("generic")}

\* C11: the source of every canonical incident parse_event returns is one of
\* the enumerated tags.
C11_SourceEnumerated == pc = "infer" => incident_data["source"] \in SourceTags

\* the 'detail-type' strings of this model that hold each marker
CloudWatchTypes == {"CloudWatch Alarm State Change", "CloudWatch Alarm for RDS"}
PodTypes == {"K8s Pod Failure"}
RdsTypes == {"RDS DB Instance Event", "CloudWatch Alarm for RDS"}

\* the earliest of the five dispatch conditions the event meets
FirstMatch(e) ==
  IF HasKey(e, "detail-type") /\ e["detail-type"][2] \in CloudWatchTypes THEN "cloudwatch"
  ELSE IF HasKey(e, "detail-type") /\ e["detail-type"][2] \in PodTypes THEN "pod"
  ELSE IF HasKey(e, "detail-type") /\ e["detail-type"][2] \in RdsTypes THEN "rds"
  ELSE IF HasKey(e, "Source") THEN "bus"
  ELSE "generic"

\* C12: the incident parse_event returns is the one of the earliest dispatch
\* condition the event meets, in the order CloudWatch Alarm, K8s Pod, RDS,
\* top-level 'Source', generic; an event meeting none gives source 'unknown'
\* and type 'generic', and only an event meeting one can make parse_event raise.
C12_FirstMatchWins ==
  /\ failed_at = "parse" => FirstMatch(event) # "generic"
  /\ pc = "infer" =>
       CASE FirstMatch(event) = "cloudwatch" ->
              /\ incident_data["source"] = JStr("cloudwatch_alarm")
              /\ incident_data["type"] = JStr("infrastructure")
              /\ HasKey(incident_data, "alarm_name")
         [] FirstMatch(event) = "pod" ->
              /\ incident_data["source"] = JStr("kubernetes")
              /\ incident_data["type"] = JStr("pod_failure")
              /\ incident_data["status"] = Get(event["detail"][2], "status", JStr("Unknown"))
         [] FirstMatch(event) = "rds" ->
              /\ incident_data["source"] = JStr("rds")
              /\ incident_data["type"] = JStr("database_issue")
              /\ HasKey(incident_data, "db_instance")
         [] FirstMatch(event) = "bus" ->
              /\ incident_data["source"] = Get(read_Detail(event).val[2], "source", JStr("kubernetes"))
              /\ incident_data["status"] = Get(read_Detail(event).val[2], "status", JStr("Unknown"))
         [] OTHER ->
              /\ incident_data["source"] = JStr("unknown")
              /\ incident_data["type"] = JStr("generic")
              /\ DOMAIN incident_data = {"source", "type", "timestamp", "raw_event"}

\* C12 witness: an event whose 'detail-type' holds both "CloudWatch Alarm" and
\* "RDS", and which carries a top-level 'Source', normalized as an alarm.
C12_Witness ==
  /\ pc = "infer"
  /\ HasKey(event, "detail-type")
  /\ event["detail-type"] = JStr("CloudWatch Alarm for RDS")
  /\ HasKey(event, "Source")
  /\ incident_data["source"] = JStr("cloudwatch_alarm")

\* the lines send_notifications prints about the paging channel
PagingLines == {i \in 1..Len(log) : log[i] \notin {"Slack notification sent successfully",
                                                   "Slack webhook not configured"}}

\* C13: whenever the paging channel is skipped, exactly one line of the log
\* gives the reason, and the line differs between the three causes
\* (unavailable, unconfigured, below threshold).
C13_SkipReasonLogged ==
  (pc = "done" /\ response.statusCode = 200 /\ channels.pagerduty = "skipped") =>
    /\ Cardinality(PagingLines) = 1
    /\ \A i \in PagingLines :
         LET pagerduty_key == Get(environ, "PAGERDUTY_INTEGRATION_KEY", JNull) IN
         CASE ~PAGERDUTY_AVAILABLE -> log[i] = "PagerDuty integration not available, skipping"
           [] ~Truthy(pagerduty_key) -> log[i] = "PagerDuty not configured, skipping"
           [] OTHER -> log[i] \notin {"PagerDuty integration not available, skipping",
                                      "PagerDuty not configured, skipping"}

\* the replies reconciled on the degradation path: the error markers of a
\* failed backend call, prose, and the replies cut short
DegradedTexts ==
  {<<Lit("Error calling Bedrock: "), Lit("backend failure")>>,
   <<Lit("Error calling Anthropic: "), Lit("backend failure")>>,
   <<Lit("Error: No content in Bedrock response")>>,
   <<Junk>>}
  \cup TruncatedTexts

\* C14: when the text reconciled is an error marker of the backend call or a
\* reply that is not JSON (prose, or a reply cut short), the analysis is the
\* fixed default analysis with the four identity fields stamped, and the
\* handler answers 200.
C14_DegradesToDefault ==
  analysis_text \in DegradedTexts =>
    /\ pc \in {"notify", "done"} =>
         /\ DOMAIN analysis = RequiredFields
         /\ analysis["severity"] = JStr("medium")
         /\ analysis["title"] = JStr("Incident requires investigation")
         /\ analysis["root_cause"] = JStr("Analysis in progress")
         /\ analysis["impact"] = JStr("Unknown")
         /\ analysis["immediate_actions"] = JList(<<JStr("Investigate the incident")>>)
         /\ analysis["resolution_steps"] = JList(<<JStr("Manual investigation required")>>)
         /\ analysis["prevention"] = JList(<<JStr("Review after resolution")>>)
         /\ analysis["incident_id"] = <<"id", incident_data>>
         /\ analysis["timestamp"] = incident_data["timestamp"]
         /\ analysis["source"] = incident_data["source"]
         /\ analysis["analyzed_by"] =
              JStr(IF agent_use_bedrock THEN "claude-ai-bedrock" ELSE "claude-ai")
    /\ pc = "done" => response.statusCode = 200 /\ failed_at = ""

\* C14 witness: a backend call that raised, and a reply cut short, each
\* answered 200 with the default severity.
C14_Witness ==
  /\ pc = "done"
  /\ backend_outcome = "raises"
  /\ analysis_text \in DegradedTexts
  /\ response.statusCode = 200
  /\ response.body["severity"] = JStr("medium")

\* C15: whatever the backend does other than return text (a failed call, a
\* response without content), the text the inference client returns begins
\* with "Error calling "; when it returns text, the client returns that text.
C15_ErrorMarkerPrefix ==
  pc \in {"reconcile", "notify", "done"} /\ backend_outcome # "" =>
    IF backend_outcome = "text" THEN analysis_text \in HandlerTexts \cup Texts
    ELSE analysis_text[1] \in {Lit("Error calling Bedrock: "), Lit("Error calling Anthropic: ")}

\* the list of recommendations send_incident_alert reads from the analysis
Recommended ==
  IF HasKey(analysis, "recommendations") /\ analysis["recommendations"][2] # <<>>
  THEN analysis["recommendations"][2]
  ELSE IF HasKey(analysis, "immediate_actions") THEN analysis["immediate_actions"][2]
  ELSE <<>>

\* C16: the recommendations section of the message posted for a list of n
\* items is the fixed sentence when n = 0, the n items in order when
\* 1 <= n <= 5, and the first 5 items in order followed by one line counting
\* the n - 5 others when n > 5.
C16_RecommendationTruncation ==
  pc = "done" /\ posts # <<>> =>
    LET n == Len(Recommended)
        text == posts[1].recommendations
    IN /\ n = 0 => text = <<<<"none", 0>>>>
       /\ (1 <= n /\ n <= 5) =>
            /\ Len(text) = n
            /\ \A i \in 1..n : text[i] = <<"bullet", Recommended[i]>>
       /\ n > 5 =>
            /\ Len(text) = 6
            /\ \A i \in 1..5 : text[i] = <<"bullet", Recommended[i]>>
            /\ text[6] = <<"more", n - 5>>

\* C16 witness: a list of 7 items posted as 5 items and "2 more".
C16_Witness ==
  /\ pc = "done"
  /\ posts # <<>>
  /\ Len(Recommended) = 7
  /\ Len(posts[1].recommendations) = 6
  /\ posts[1].recommendations[6] = <<"more", 2>>

\* C17: in every invocation whose analysis completes with a non-empty
\* SLACK_WEBHOOK_URL, exactly one POST to the webhook is attempted, whatever
\* the severity of the analysis and whatever the paging conditions.
C17_ChatAlwaysAttempted ==
  (/\ pc = "done"
   /\ response.statusCode = 200
   /\ Truthy(Get(environ, "SLACK_WEBHOOK_URL", JNull))) => Len(posts) = 1

\* C18: the external calls of one invocation are the inference call, then at
\* most one POST to the chat webhook, then at most one call of the paging
\* API, in that order; none is made twice, and none before the event is
\* normalized.
C18_SequentialSingleAttempt ==
  /\ calls \in {<<>>, <<"inference">>, <<"inference", "chat">>, <<"inference", "paging">>,
                <<"inference", "chat", "paging">>}
  /\ pc \in {"init", "parse", "infer"} => calls = <<>>
  /\ pc \in {"reconcile", "notify"} => calls = <<"inference">>
  /\ Len(posts) <= 1
  /\ Len(pages) <= 1

\* C18 witness: the three calls made once each, the chat POST and the page
\* both failed.
C18_Witness ==
  /\ pc = "done"
  /\ calls = <<"inference", "chat", "paging">>
  /\ channels = [slack |-> "failed", pagerduty |-> "failed"]

\* C20: whenever the chat message posted carries the high/critical action
\* row and the paging client is available with a key configured, the paging
\* channel is attempted as well.
C20_SameEscalation ==
  (/\ pc = "done"
   /\ posts # <<>>
   /\ posts[1].actions # <<>>
   /\ PAGERDUTY_AVAILABLE
   /\ Truthy(Get(environ, "PAGERDUTY_INTEGRATION_KEY", JNull))) => pages # <<>>

\* C19: enrich_pod_event returns its input unmodified when there is no
\* cluster client, when the record has no pod name, and whenever a read it
\* makes of the cluster (the pod, its ReplicaSet, the ReplicaSet's Deployment)
\* fails.
C19_EnrichBestEffort ==
  pc = "enriched" =>
    LET asked_pod == v1 /\ Truthy(Get(pod_data, "pod_name", JNull))
        asked_rs == asked_pod /\ cluster.pod_read = "ok" /\ cluster.owner = "ReplicaSet"
        asked_deployment == asked_rs /\ cluster.rs_read = "ok" /\ cluster.rs_owner = "Deployment"
    IN (\/ ~asked_pod
        \/ cluster.pod_read = "raises"
        \/ asked_rs /\ cluster.rs_read = "raises"
        \/ asked_deployment /\ cluster.deployment_read = "raises") => enriched = pod_data

\* C21: an invocation that answers 500 attempted no chat POST and no page;
\* and when a chat POST or a page was attempted, parse_event and
\* analyze_incident had returned (the incident and the stamped analysis are
\* there, the inference call was made first) and the response is 200.
C21_NotifyOnlyOnSuccess ==
  /\ response.statusCode = 500 =>
       /\ posts = <<>>
       /\ pages = <<>>
       /\ calls \in {<<>>, <<"inference">>}
  /\ (posts # <<>> \/ pages # <<>>) =>
       /\ pc = "done"
       /\ response.statusCode = 200
       /\ failed_at = ""
       /\ HasKey(incident_data, "source")
       /\ {"severity", "incident_id", "analyzed_by"} \subseteq DOMAIN analysis
       /\ calls # <<>>
       /\ calls[1] = "inference"

\* C21 witness: a chat POST and a page, both attempted after the analysis,
\* the page refused, and the response 200.
C21_Witness ==
  /\ pc = "done"
  /\ posts # <<>>
  /\ pages # <<>>
  /\ channels.pagerduty = "failed"
  /\ calls = <<"inference", "chat", "paging">>
  /\ response.statusCode = 200

====
